---------------------------- MODULE Spec2Model ----------------------------
(***************************************************************************)
(* Model of src/main.py: a one-shot pipeline over a daily temperature      *)
(* table (columns time, tl_mittel, tlmin, tlmax).                          *)
(*   load       -> df                                                      *)
(*   phase one  -> clim, monthly_means, anom, series, hottest_years, chart *)
(*   phase two  -> monthly_stats, chart                                    *)
(*   phase three-> annual_stats, chart                                     *)
(* A cell is NaN or <<v>> with v an integer temperature.  A mean, anomaly  *)
(* or quantile is NaN or an exact fraction <<num, den>> with den > 0.      *)
(* A time stamp is an integer (see Timestamp).                             *)
(***************************************************************************)
EXTENDS Integers, Sequences, FiniteSets

VARIABLES pc, csv, df, yearly_means, clim, monthly_means, anom, series,
          mean_anom_per_year, hottest_years, figure,
          monthly_stats, annual_stats, files

vars == <<pc, csv, df, yearly_means, clim, monthly_means, anom, series,
          mean_anom_per_year, hottest_years, figure,
          monthly_stats, annual_stats, files>>

-----------------------------------------------------------------------------
(* Values *)

NaN == <<>>

TempColumns == {"tl_mittel", "tlmin", "tlmax"}

AllColumns == TempColumns \cup {"time"}

MonthsPerYear == 12

DaysPerMonth == 31

\* pd.Timestamp(year, month, day) / pd.to_datetime: a point on the time axis.
\* The encoding keeps the order of dates; year and month are decoded from it.
Timestamp(y, m, d) == (y * MonthsPerYear + (m - 1)) * DaysPerMonth + (d - 1)

\* DatetimeIndex.year
YearOf(t) == t \div (MonthsPerYear * DaysPerMonth)

\* DatetimeIndex.month
MonthOf(t) == ((t \div DaysPerMonth) % MonthsPerYear) + 1

DayOf(t) == (t % DaysPerMonth) + 1

-----------------------------------------------------------------------------
(* Sequences and exact fractions *)

RECURSIVE SortedSeq(_)
\* the elements of a set of integers (or of year-month pairs) in ascending order
SortedSeq(S) ==
    IF S = {} THEN <<>>
    ELSE LET x == CHOOSE a \in S : \A b \in S : a <= b
         IN  <<x>> \o SortedSeq(S \ {x})

PairLess(a, b) == a[1] < b[1] \/ (a[1] = b[1] /\ a[2] < b[2])

RECURSIVE SortedPairs(_)
SortedPairs(S) ==
    IF S = {} THEN <<>>
    ELSE LET x == CHOOSE a \in S : \A b \in S \ {a} : PairLess(a, b)
         IN  <<x>> \o SortedPairs(S \ {x})

FracSub(a, b) ==
    IF a = NaN \/ b = NaN THEN NaN
    ELSE <<a[1] * b[2] - b[1] * a[2], a[2] * b[2]>>

FracAdd(a, b) == <<a[1] * b[2] + b[1] * a[2], a[2] * b[2]>>

FracEq(a, b) ==
    IF a = NaN \/ b = NaN THEN a = b
    ELSE a[1] * b[2] = b[1] * a[2]

\* a < b for two fractions that are not NaN
FracLess(a, b) == a[1] * b[2] < b[1] * a[2]

-----------------------------------------------------------------------------
(* pandas-style frame operations.  A frame is a function from its index   *)
(* to rows; a row is a function from column names to values.              *)

EmptyFrame == <<>>

\* df[lo:hi] on a sorted DatetimeIndex: both ends inclusive
Slice(rows, lo, hi) ==
    [t \in {x \in DOMAIN rows : lo <= x /\ x <= hi} |-> rows[t]]

RECURSIVE SumCol(_, _, _)
SumCol(rows, D, col) ==
    IF D = {} THEN 0
    ELSE LET t == CHOOSE x \in D : TRUE
         IN  rows[t][col][1] + SumCol(rows, D \ {t}, col)

\* GroupBy.mean of one column over the rows D of one group: NaN cells are
\* skipped, a group with no value left has mean NaN
Mean(rows, D, col) ==
    LET present == {t \in D : rows[t][col] # NaN}
    IN  IF present = {} THEN NaN
        ELSE <<SumCol(rows, present, col), Cardinality(present)>>

\* frame.groupby(key).mean(), key holding one group key per row of the
\* frame: one result row per key value that occurs
GroupByMean(rows, cols, key) ==
    [k \in {key[t] : t \in DOMAIN rows} |->
        [c \in cols |-> Mean(rows, {t \in DOMAIN rows : key[t] = k}, c)]]

YearMonthOf(t) == <<YearOf(t), MonthOf(t)>>

\* monthly_means - clim: the (year, month) index is joined with the month
\* index on the level the two share by name, "month"
SubOnMonthLevel(mm, cl, cols) ==
    [k \in DOMAIN mm |->
        [c \in cols |-> IF k[2] \in DOMAIN cl
                        THEN FracSub(mm[k][c], cl[k[2]][c])
                        ELSE NaN]]

RECURSIVE FracSum(_, _)
FracSum(f, D) ==
    IF D = {} THEN <<0, 1>>
    ELSE LET k == CHOOSE x \in D : TRUE
         IN  FracAdd(f[k], FracSum(f, D \ {k}))

\* series.groupby(level="year").mean() of a series indexed by (year, month)
GroupByYearMean(s) ==
    [y \in {k[1] : k \in DOMAIN s} |->
        LET present == {k \in DOMAIN s : k[1] = y /\ s[k] # NaN}
            total   == FracSum(s, present)
        IN  IF present = {} THEN NaN
            ELSE <<total[1], total[2] * Cardinality(present)>>]

RECURSIVE SortDescending(_, _)
\* the keys D of s by descending value; equal values keep index order
SortDescending(s, D) ==
    IF D = {} THEN <<>>
    ELSE LET top == CHOOSE a \in D : \A b \in D \ {a} :
                        \/ FracLess(s[b], s[a])
                        \/ (~FracLess(s[a], s[b]) /\ a < b)
         IN  <<top>> \o SortDescending(s, D \ {top})

\* mutant: nsmallest in place of nlargest
NSmallest(s, n) ==
    LET dropped   == {k \in DOMAIN s : s[k] # NaN}
        nan_index == SortedSeq(DOMAIN s \ dropped)
        desc      == SortDescending(s, dropped)
        ordered   == [i \in 1..Len(desc) |-> desc[Len(desc) + 1 - i]] \o nan_index
    IN  SubSeq(ordered, 1, IF Len(ordered) < n THEN Len(ordered) ELSE n)

\* Series.nlargest(n).index, keep="first": the n largest values in
\* descending order; NaN entries come last and only fill what is left
NLargest(s, n) ==
    LET dropped   == {k \in DOMAIN s : s[k] # NaN}
        nan_index == SortedSeq(DOMAIN s \ dropped)
        ordered   == SortDescending(s, dropped) \o nan_index
    IN  SubSeq(ordered, 1, IF Len(ordered) < n THEN Len(ordered) ELSE n)

RECURSIVE Digits(_)
Digits(n) == IF n < 10 THEN <<n>> ELSE Digits(n \div 10) \o <<n % 10>>

\* str(year): the decimal numeral, as a sequence of digits
Str(n) == Digits(n)

-----------------------------------------------------------------------------
(* Program constants *)

NormalFirstYear == 1991

NormalLastYear == 2020

TopN == 5

MidMonthDay == 15

\* df["1991-01-01":"2020-12-31"]
df_date_restricted(rows) ==
    Slice(rows, Timestamp(NormalFirstYear, 1, 1),
                Timestamp(NormalLastYear, MonthsPerYear, DaysPerMonth))

\* mutant: the climatology is taken over the whole table
df_clim_whole_table(rows) == rows

\* df_date_restricted["1991-01":"2020-12"]: a month-resolution slice runs
\* from the first day of the first month to the last day of the last month
df_clim(rows) ==
    Slice(df_date_restricted(rows),
          Timestamp(NormalFirstYear, 1, 1),
          Timestamp(NormalLastYear, MonthsPerYear, DaysPerMonth))

\* DataFrame.dropna(): the rows without a missing value
DropNa(frame) ==
    [k \in {x \in DOMAIN frame : \A c \in DOMAIN frame[x] : frame[x][c] # NaN}
        |-> frame[k]]

YearlyMeans(rows, cols) ==
    LET frame == df_date_restricted(rows)
    IN  DropNa(GroupByMean(frame, cols, [t \in DOMAIN frame |-> YearOf(t)]))

Climatology(rows, cols) ==
    LET frame == df_clim(rows)
    IN  GroupByMean(frame, cols, [t \in DOMAIN frame |-> MonthOf(t)])

MonthlyMeans(rows, cols) ==
    LET frame == df_date_restricted(rows)
    IN  GroupByMean(frame, cols, [t \in DOMAIN frame |-> YearMonthOf(t)])

Anomalies(rows, cols) ==
    SubOnMonthLevel(MonthlyMeans(rows, cols), Climatology(rows, cols), cols)

\* anom["tl_mittel"], still indexed by (year, month)
SeriesOf(an, col) == [k \in DOMAIN an |-> an[k][col]]

MeanAnomPerYear(s) == GroupByYearMean(s)

HottestYears(s) == NLargest(MeanAnomPerYear(s), TopN)

\* [pd.Timestamp(year=y, month=m, day=15) for y, m in series.index]
time_index(s) ==
    LET keys == SortedPairs(DOMAIN s)
    IN  [i \in 1..Len(keys) |-> Timestamp(keys[i][1], keys[i][2], MidMonthDay)]

\* series.index = pd.DatetimeIndex(time_index): the values stay in place,
\* the i-th value gets the i-th new label
Reindexed(s) ==
    LET keys == SortedPairs(DOMAIN s)
        ti   == time_index(s)
    IN  [i \in 1..Len(keys) |-> [t |-> ti[i], v |-> s[keys[i]]]]

\* the base line: plt.plot(series.index, series.values, color="lightgray")
BaseLine(ser) == [color |-> "lightgray", label |-> <<>>, points |-> ser]

\* mutant: the mask takes every point from that year on
YearLineFromYearOn(ser, year) ==
    [color  |-> "red",
     label  |-> Str(year),
     points |-> SelectSeq(ser, LAMBDA p : YearOf(p.t) >= year)]

\* one highlighted line: mask = series.index.year == year
YearLine(ser, year) ==
    [color  |-> "red",
     label  |-> Str(year),
     points |-> SelectSeq(ser, LAMBDA p : YearOf(p.t) = year)]

AnomalyFigure(ser, years) ==
    <<BaseLine(ser)>> \o [i \in 1..Len(years) |-> YearLine(ser, years[i])]


-----------------------------------------------------------------------------
(* Phase two: order statistics per month over the custom years *)

BirthYear == 2002

RecentFirstYear == 2023

\* an upper end for the open slice df["2023-01-01":]
EndOfTime(rows) ==
    IF DOMAIN rows = {} THEN 0
    ELSE CHOOSE t \in DOMAIN rows : \A u \in DOMAIN rows : u <= t

\* pd.concat([a, b]) of two frames with disjoint indexes
Concat(a, b) ==
    [t \in DOMAIN a \cup DOMAIN b |-> IF t \in DOMAIN a THEN a[t] ELSE b[t]]

\* pd.concat([df["2002-01-01":"2002-12-31"], df["2023-01-01":]])
df_custom_years(rows) ==
    Concat(Slice(rows, Timestamp(BirthYear, 1, 1),
                       Timestamp(BirthYear, MonthsPerYear, DaysPerMonth)),
           Slice(rows, Timestamp(RecentFirstYear, 1, 1), EndOfTime(rows)))

RECURSIVE SortedVals(_, _, _)
\* the non-missing values of a column over the rows D, in ascending order
SortedVals(rows, D, col) ==
    LET present == {t \in D : rows[t][col] # NaN}
    IN  IF present = {} THEN <<>>
        ELSE LET t == CHOOSE a \in present :
                          \A b \in present : rows[a][col][1] <= rows[b][col][1]
             IN  <<rows[t][col][1]>> \o SortedVals(rows, present \ {t}, col)

\* Series.median(): the middle value, or the mean of the two middle values
Median(vals) ==
    LET n == Len(vals)
    IN  IF n = 0 THEN NaN
        ELSE IF n % 2 = 1 THEN <<vals[(n + 1) \div 2], 1>>
        ELSE <<vals[n \div 2] + vals[n \div 2 + 1], 2>>

\* Series.quantile(q / 100), linear interpolation between the two order
\* statistics around position (n - 1) * q / 100
Quantile(vals, q) ==
    LET n   == Len(vals)
        pos == (n - 1) * q
        lo  == pos \div 100 + 1
        rem == pos % 100
    IN  IF n = 0 THEN NaN
        ELSE IF rem = 0 THEN <<100 * vals[lo], 100>>
        ELSE <<100 * vals[lo] + rem * (vals[lo + 1] - vals[lo]), 100>>

\* the list of aggregations main.py gives for each column
AggFuncs ==
    << [fn |-> "median",   q |-> 50],
       [fn |-> "quantile", q |-> 25],
       [fn |-> "quantile", q |-> 75],
       [fn |-> "quantile", q |-> 10],
       [fn |-> "quantile", q |-> 90] >>

\* the keys of the dict passed to agg, in order
AggColumns == <<"tl_mittel", "tlmin", "tlmax">>

Apply(f, vals) == IF f.fn = "median" THEN Median(vals) ELSE Quantile(vals, f.q)

\* MultiIndex.from_product([A, B]): A varies slowest
FromProduct(A, B) ==
    [i \in 1..(Len(A) * Len(B)) |->
        <<A[(i - 1) \div Len(B) + 1], B[((i - 1) % Len(B)) + 1]>>]

\* the columns agg produces: for each dict key, its functions in list order
AggOutput == FromProduct(AggColumns, AggFuncs)

\* mutant: the quantile labels in ascending order
StatLabelsAscending ==
    FromProduct(<<"tl_mittel", "tlmin", "tlmax">>,
                <<"median", "p10", "p25", "p75", "p90">>)

\* the labels assigned afterwards, by position
StatLabels ==
    FromProduct(<<"tl_mittel", "tlmin", "tlmax">>,
                <<"median", "p25", "p75", "p10", "p90">>)

\* groupby(month).agg({...}) followed by monthly_stats.columns = ...
MonthlyStats(rows) ==
    LET custom == df_custom_years(rows)
    IN  [m \in {MonthOf(t) : t \in DOMAIN custom} |->
            LET group  == {t \in DOMAIN custom : MonthOf(t) = m}
                values == [i \in 1..Len(AggOutput) |->
                             Apply(AggOutput[i][2],
                                   SortedVals(custom, group, AggOutput[i][1]))]
            IN  [lab \in {StatLabels[i] : i \in 1..Len(StatLabels)} |->
                    values[CHOOSE i \in 1..Len(StatLabels) : StatLabels[i] = lab]]]

months == 1..MonthsPerYear

\* the order of the three subplots
variables == <<"tlmin", "tl_mittel", "tlmax">>

\* one subplot: the two filled bands and the median line over months
DistributionAxes(stats, var) ==
    [var         |-> var,
     interdecile |-> [m \in months |-> <<stats[m][<<var, "p10">>], stats[m][<<var, "p90">>]>>],
     interquartile |-> [m \in months |-> <<stats[m][<<var, "p25">>], stats[m][<<var, "p75">>]>>],
     median      |-> [m \in months |-> stats[m][<<var, "median">>]]]

DistributionFigure(stats) ==
    [i \in 1..Len(variables) |-> DistributionAxes(stats, variables[i])]

-----------------------------------------------------------------------------
(* Phase three: threshold counts per year *)

HotDayThreshold == 30

TropicalNightThreshold == 20

\* mutant: the threshold itself does not count
AtLeastStrict(cell, threshold) == cell # NaN /\ cell[1] > threshold

\* x >= threshold on a cell: a comparison with NaN is False
AtLeast(cell, threshold) == cell # NaN /\ cell[1] >= threshold

\* (x >= threshold).sum() over the rows D
CountAtLeast(rows, D, col, threshold) ==
    Cardinality({t \in D : AtLeast(rows[t][col], threshold)})

\* df.groupby(year).agg({"tlmax": ..., "tlmin": ...}) and the relabelling of
\* the two result columns, by position, as hot_days and tropical_nights
AnnualStats(rows) ==
    [y \in {YearOf(t) : t \in DOMAIN rows} |->
        LET group  == {t \in DOMAIN rows : YearOf(t) = y}
            values == <<CountAtLeast(rows, group, "tlmax", HotDayThreshold),
                        CountAtLeast(rows, group, "tlmin", TropicalNightThreshold)>>
        IN  [hot_days |-> values[1], tropical_nights |-> values[2]]]

HeatFigure(stats) ==
    LET years == SortedSeq(DOMAIN stats)
    IN  << [color |-> "red",  label |-> "Hot Days",
            points |-> [i \in 1..Len(years) |->
                          [t |-> years[i], v |-> stats[years[i]].hot_days]]],
           [color |-> "blue", label |-> "Tropical Nights",
            points |-> [i \in 1..Len(years) |->
                          [t |-> years[i], v |-> stats[years[i]].tropical_nights]]] >>


-----------------------------------------------------------------------------
(* Input files *)

MaxRows == 3

NumHotYears == 6

Row(a, b, c) == [tl_mittel |-> a, tlmin |-> b, tlmax |-> c]

\* a table with one mild day in the middle of every month of 2002
FullYear ==
    [t \in {Timestamp(BirthYear, m, MidMonthDay) : m \in months} |->
        Row(<<10>>, <<5>>, <<15>>)]

\* base with the rows of extra added
Overlay(base, extra) ==
    [t \in DOMAIN base \cup DOMAIN extra |->
        IF t \in DOMAIN extra THEN extra[t] ELSE base[t]]

\* every table that adds at most MaxRows rows, on days of slots and with
\* values from kinds, to the empty table or to FullYear
SparseTables(slots, kinds) ==
    LET days == {S \in SUBSET slots : Cardinality(S) <= MaxRows}
    IN  {Overlay(base, extra) :
            base \in {EmptyFrame, FullYear},
            extra \in UNION {[S -> kinds] : S \in days}}

OkFile(rows) == [status |-> "ok", columns |-> AllColumns, rows |-> rows]

\* files the load or a later step fails on: no file, no CSV, or a CSV that
\* lacks some of the expected columns
BadFiles ==
    {[status |-> st, columns |-> {}, rows |-> EmptyFrame] :
        st \in {"missing", "garbled"}}
    \cup
    {[status  |-> "ok",
      columns |-> C,
      rows    |-> [t \in DOMAIN FullYear |->
                      [c \in C \ {"time"} |-> FullYear[t][c]]]] :
        C \in (SUBSET AllColumns) \ {AllColumns}}

InitWith(tables) ==
    /\ pc = "load"
    /\ csv \in {OkFile(t) : t \in tables} \cup BadFiles
    /\ df = EmptyFrame
    /\ yearly_means = EmptyFrame
    /\ clim = EmptyFrame
    /\ monthly_means = EmptyFrame
    /\ anom = EmptyFrame
    /\ series = <<>>
    /\ mean_anom_per_year = EmptyFrame
    /\ hottest_years = <<>>
    /\ figure = <<>>
    /\ monthly_stats = EmptyFrame
    /\ annual_stats = EmptyFrame
    /\ files = <<>>

\* days around the ends of the years the three phases single out, with
\* rows on, below and above the two thresholds and rows with missing values
GeneralSlots ==
    { Timestamp(1990, 7, 1), Timestamp(1991, 7, 1), Timestamp(2002, 7, 1),
      Timestamp(2023, 7, 1), Timestamp(2023, 7, 2), Timestamp(2024, 8, 1) }

GeneralKinds ==
    { Row(<<25>>, <<20>>, <<30>>), Row(<<24>>, <<19>>, <<31>>),
      Row(NaN, <<21>>, NaN),       Row(<<20>>, NaN, <<29>>) }

Init == InitWith(SparseTables(GeneralSlots, GeneralKinds))

\* days on both sides of the two ends of the normal period, two days of one
\* month, and the same month in several years
ClimSlots ==
    { Timestamp(1990, 12, 31), Timestamp(1991, 1, 1), Timestamp(1991, 1, 2),
      Timestamp(2002, 1, 1),   Timestamp(2020, 1, 1), Timestamp(2020, 12, 31),
      Timestamp(2021, 1, 1) }

ClimKinds ==
    { Row(<<1>>, <<-4>>, <<6>>), Row(<<4>>, <<0>>, <<9>>), Row(NaN, <<2>>, NaN) }

InitClim == InitWith(SparseTables(ClimSlots, ClimKinds))

\* a warm row, a cool row whose tlmin is the higher one, and a row without
\* tl_mittel
HotKinds ==
    { Row(<<1>>, <<3>>, <<5>>), Row(<<3>>, <<1>>, <<7>>), Row(NaN, <<2>>, NaN) }

\* one July day in each of the first n years of the normal period, for n
\* from 3 to NumHotYears, with or without an August day in 1991, added to
\* the empty table or to FullYear
HotTables ==
    { Overlay(base, Overlay(july, august)) :
        base \in {EmptyFrame, FullYear},
        july \in UNION {[{Timestamp(y, 7, 1) :
                            y \in NormalFirstYear..(NormalFirstYear + n - 1)}
                         -> HotKinds] : n \in 3..NumHotYears},
        august \in {EmptyFrame}
                   \cup [{Timestamp(NormalFirstYear, 8, 1)} ->
                            {Row(<<3>>, <<1>>, <<7>>), Row(NaN, <<2>>, NaN)}] }

InitHot == InitWith(HotTables)

\* days on both sides of the ends of 2002 and of the start of 2023, and
\* January days of three custom years
StatSlots ==
    { Timestamp(2001, 12, 31), Timestamp(2002, 1, 1), Timestamp(2002, 12, 31),
      Timestamp(2003, 1, 1),   Timestamp(2022, 12, 31), Timestamp(2023, 1, 1),
      Timestamp(2024, 1, 1) }

StatKinds ==
    { Row(<<2>>, <<-3>>, <<7>>), Row(<<5>>, <<1>>, <<8>>), Row(NaN, <<-1>>, <<12>>) }

InitStats == InitWith(SparseTables(StatSlots, StatKinds))

-----------------------------------------------------------------------------
(* The script, step by step *)

\* the value columns of df once time has become the index
Columns == csv.columns \ {"time"}

\* lines 18-20: read_csv, to_datetime, set_index
Load ==
    /\ pc = "load"
    /\ csv.status = "ok"
    /\ "time" \in csv.columns
    /\ df' = csv.rows
    /\ pc' = "phase1"
    /\ UNCHANGED <<csv, yearly_means, clim, monthly_means, anom, series,
                   mean_anom_per_year, hottest_years, figure, monthly_stats,
                   annual_stats, files>>

\* read_csv raises on a missing or unparseable file, df.time on a table
\* without a time column
LoadFail ==
    /\ pc = "load"
    /\ ~(csv.status = "ok" /\ "time" \in csv.columns)
    /\ pc' = "failed"
    /\ UNCHANGED <<csv, df, yearly_means, clim, monthly_means, anom, series,
                   mean_anom_per_year, hottest_years, figure, monthly_stats,
                   annual_stats, files>>

\* lines 23-48
PhaseOne ==
    /\ pc = "phase1"
    /\ "tl_mittel" \in Columns
    /\ yearly_means' = YearlyMeans(df, Columns)
    /\ clim' = Climatology(df, Columns)
    /\ monthly_means' = MonthlyMeans(df, Columns)
    /\ anom' = Anomalies(df, Columns)
    /\ mean_anom_per_year' = MeanAnomPerYear(SeriesOf(anom', "tl_mittel"))
    /\ hottest_years' = HottestYears(SeriesOf(anom', "tl_mittel"))
    /\ series' = Reindexed(SeriesOf(anom', "tl_mittel"))
    /\ pc' = "plot1"
    /\ UNCHANGED <<csv, df, figure, monthly_stats, annual_stats, files>>

\* anom["tl_mittel"] raises KeyError on a table without that column
PhaseOneFail ==
    /\ pc = "phase1"
    /\ "tl_mittel" \notin Columns
    /\ yearly_means' = YearlyMeans(df, Columns)
    /\ clim' = Climatology(df, Columns)
    /\ monthly_means' = MonthlyMeans(df, Columns)
    /\ anom' = Anomalies(df, Columns)
    /\ pc' = "failed"
    /\ UNCHANGED <<csv, df, series, mean_anom_per_year, hottest_years, figure,
                   monthly_stats, annual_stats, files>>

\* mutant: the chart is drawn and never saved
PlotOneNoSave ==
    /\ pc = "plot1"
    /\ figure' = AnomalyFigure(series, hottest_years)
    /\ pc' = "phase2"
    /\ UNCHANGED <<csv, df, yearly_means, clim, monthly_means, anom, series,
                   mean_anom_per_year, hottest_years, monthly_stats,
                   annual_stats, files>>

\* lines 51-63
PlotOne ==
    /\ pc = "plot1"
    /\ figure' = AnomalyFigure(series, hottest_years)
    /\ files' = Append(files, [name    |-> "Anomalies from 1991 to 2020.png",
                               content |-> figure'])
    /\ pc' = "phase2"
    /\ UNCHANGED <<csv, df, yearly_means, clim, monthly_means, anom, series,
                   mean_anom_per_year, hottest_years, monthly_stats,
                   annual_stats>>

\* lines 73-91
PhaseTwo ==
    /\ pc = "phase2"
    /\ TempColumns \subseteq Columns
    /\ monthly_stats' = MonthlyStats(df)
    /\ pc' = "plot2"
    /\ UNCHANGED <<csv, df, yearly_means, clim, monthly_means, anom, series,
                   mean_anom_per_year, hottest_years, figure, annual_stats,
                   files>>

\* agg raises KeyError when a column named in its dict does not exist
PhaseTwoFail ==
    /\ pc = "phase2"
    /\ ~(TempColumns \subseteq Columns)
    /\ pc' = "failed"
    /\ UNCHANGED <<csv, df, yearly_means, clim, monthly_means, anom, series,
                   mean_anom_per_year, hottest_years, figure, monthly_stats,
                   annual_stats, files>>

\* lines 94-139
PlotTwo ==
    /\ pc = "plot2"
    /\ DOMAIN monthly_stats = months
    /\ figure' = DistributionFigure(monthly_stats)
    /\ files' = Append(files, [name    |-> "Monthly Temperature Distributions.png",
                               content |-> figure'])
    /\ pc' = "phase3"
    /\ UNCHANGED <<csv, df, yearly_means, clim, monthly_means, anom, series,
                   mean_anom_per_year, hottest_years, monthly_stats,
                   annual_stats>>

\* the bands and lines are drawn over range(1, 13): with a month missing
\* from monthly_stats the lengths differ and the plot call raises ValueError
PlotTwoFail ==
    /\ pc = "plot2"
    /\ DOMAIN monthly_stats # months
    /\ figure' = <<>>
    /\ pc' = "failed"
    /\ UNCHANGED <<csv, df, yearly_means, clim, monthly_means, anom, series,
                   mean_anom_per_year, hottest_years, monthly_stats,
                   annual_stats, files>>

\* lines 146-152; the two columns it reads exist once phase two has passed
PhaseThree ==
    /\ pc = "phase3"
    /\ annual_stats' = AnnualStats(df)
    /\ pc' = "plot3"
    /\ UNCHANGED <<csv, df, yearly_means, clim, monthly_means, anom, series,
                   mean_anom_per_year, hottest_years, figure, monthly_stats,
                   files>>

\* lines 154-163
PlotThree ==
    /\ pc = "plot3"
    /\ figure' = HeatFigure(annual_stats)
    /\ files' = Append(files, [name    |-> "Hot days and Tropical nights.png",
                               content |-> figure'])
    /\ pc' = "done"
    /\ UNCHANGED <<csv, df, yearly_means, clim, monthly_means, anom, series,
                   mean_anom_per_year, hottest_years, monthly_stats,
                   annual_stats>>

Next ==
    \/ Load
    \/ LoadFail
    \/ PhaseOne
    \/ PhaseOneFail
    \/ PlotOne
    \/ PhaseTwo
    \/ PhaseTwoFail
    \/ PlotTwo
    \/ PlotTwoFail
    \/ PhaseThree
    \/ PlotThree

Spec == Init /\ [][Next]_vars

SpecClim == InitClim /\ [][Next]_vars

SpecHot == InitHot /\ [][Next]_vars

SpecStats == InitStats /\ [][Next]_vars


-----------------------------------------------------------------------------
(* Claims *)

ChartOrder ==
    << "Anomalies from 1991 to 2020.png",
       "Monthly Temperature Distributions.png",
       "Hot days and Tropical nights.png" >>

LoadFails == csv.status # "ok" \/ "time" \notin csv.columns

\* the set of file names written so far, in the order of writing
Written == [i \in 1..Len(files) |-> files[i].name]

\* C7: the charts are written in the order anomaly timeline, monthly
\* distributions, heat counts; a chart is on disk only once the table is
\* loaded and that phase's results are computed, and it shows those results;
\* a run whose load fails writes no chart; a run that reaches the end has
\* written exactly the three charts.
C7_PipelineOrder ==
    /\ Len(files) <= Len(ChartOrder)
    /\ Written = SubSeq(ChartOrder, 1, Len(files))
    /\ Len(files) >= 1 =>
          /\ df = csv.rows
          /\ anom = Anomalies(df, Columns)
          /\ hottest_years = HottestYears(SeriesOf(anom, "tl_mittel"))
          /\ files[1].content = AnomalyFigure(series, hottest_years)
    /\ Len(files) >= 2 =>
          /\ monthly_stats = MonthlyStats(df)
          /\ files[2].content = DistributionFigure(monthly_stats)
    /\ Len(files) >= 3 =>
          /\ annual_stats = AnnualStats(df)
          /\ files[3].content = HeatFigure(annual_stats)
    /\ LoadFails => files = <<>> /\ pc \in {"load", "failed"}
    /\ pc = "done" => Len(files) = 3
    /\ pc \in {"load", "phase1", "plot1"} => files = <<>>
    /\ pc \in {"phase2", "plot2"} => Len(files) = 1
    /\ pc \in {"phase3", "plot3"} => Len(files) = 2

\* a complete run over a table that has more than the twelve rows of 2002
C7_Witness ==
    /\ pc = "done"
    /\ Len(files) = 3
    /\ Cardinality(DOMAIN df) > MonthsPerYear

\* C3: for every year with a row in the full table, hot_days is the number
\* of that year's days with tlmax >= 30 and tropical_nights the number with
\* tlmin >= 20; a missing value is not counted and a year without such a day
\* has a row with count 0.
C3_HeatCounts ==
    pc \in {"plot3", "done"} =>
        /\ DOMAIN annual_stats = {YearOf(t) : t \in DOMAIN df}
        /\ \A y \in DOMAIN annual_stats :
              /\ annual_stats[y].hot_days =
                    Cardinality({t \in DOMAIN df :
                        /\ YearOf(t) = y
                        /\ df[t].tlmax # NaN
                        /\ df[t].tlmax[1] >= 30})
              /\ annual_stats[y].tropical_nights =
                    Cardinality({t \in DOMAIN df :
                        /\ YearOf(t) = y
                        /\ df[t].tlmin # NaN
                        /\ df[t].tlmin[1] >= 20})

\* a year outside 1991-2020 with a day exactly on both thresholds and a day
\* with missing values, next to a year with rows and no exceedance
C3_Witness ==
    /\ pc = "done"
    /\ \E y \in DOMAIN annual_stats :
          /\ y > NormalLastYear
          /\ annual_stats[y].hot_days = 1
          /\ annual_stats[y].tropical_nights = 2
          /\ \E t \in DOMAIN df :
                YearOf(t) = y /\ df[t].tlmax = <<30>> /\ df[t].tlmin = <<20>>
          /\ \E t \in DOMAIN df : YearOf(t) = y /\ df[t].tlmax = NaN
    /\ \E y \in DOMAIN annual_stats :
          annual_stats[y].hot_days = 0 /\ annual_stats[y].tropical_nights = 0


\* phase one has computed its results
PhaseOneDone == pc = "plot1" \/ Len(files) >= 1

InNormalPeriod(t) == YearOf(t) >= 1991 /\ YearOf(t) <= 2020

\* the days of the set D that have a value in column c
WithValue(D, c) == {t \in D : df[t][c] # NaN}

\* C1: anom has one row per (year, month) with a day in 1991-2020, and for
\* each temperature column of the table its value is (mean of that month's daily values)
\* minus (mean of all daily values of the same calendar month in 1991-2020),
\* missing values left out; it is missing when the month holds no value.
C1_AnomalyIsMonthlyMeanMinusClimatology ==
    PhaseOneDone =>
        /\ DOMAIN anom =
              {<<YearOf(t), MonthOf(t)>> : t \in {u \in DOMAIN df : InNormalPeriod(u)}}
        /\ \A k \in DOMAIN anom : \A c \in Columns :
              LET normal == {t \in DOMAIN df : InNormalPeriod(t)}
                  inMonth == WithValue({t \in normal :
                                 YearOf(t) = k[1] /\ MonthOf(t) = k[2]}, c)
                  inClim  == WithValue({t \in normal : MonthOf(t) = k[2]}, c)
                  a == anom[k][c]
              IN  IF inMonth = {} THEN a = NaN
                  ELSE /\ a # NaN
                       /\ a[1] * Cardinality(inMonth) * Cardinality(inClim)
                            = a[2] * (SumCol(df, inMonth, c) * Cardinality(inClim)
                                      - SumCol(df, inClim, c) * Cardinality(inMonth))

\* January 1991 with two days, another January inside the normal period and
\* a January day outside it, with an anomaly that is not zero
C1_Witness ==
    /\ PhaseOneDone
    /\ Timestamp(1991, 1, 1) \in DOMAIN df
    /\ Timestamp(1991, 1, 2) \in DOMAIN df
    /\ Timestamp(2021, 1, 1) \in DOMAIN df
    /\ \E t \in DOMAIN df : YearOf(t) \in {2002, 2020} /\ MonthOf(t) = 1
    /\ <<1991, 1>> \in DOMAIN anom
    /\ anom[<<1991, 1>>]["tl_mittel"] # NaN
    /\ anom[<<1991, 1>>]["tl_mittel"][1] # 0


\* the elements of a sequence
Range(q) == {q[i] : i \in 1..Len(q)}

\* the years with a row in 1991-2020
NormalYears == {YearOf(t) : t \in {u \in DOMAIN df : InNormalPeriod(u)}}

\* the months of year y whose tl_mittel anomaly is not missing
ValuedMonths(y) ==
    {k \in DOMAIN anom : k[1] = y /\ anom[k]["tl_mittel"] # NaN}

HasAnnualValue(y) == ValuedMonths(y) # {}

\* the unweighted mean of the monthly tl_mittel anomalies of year y
AnnualValue(y) ==
    LET total == FracSum([k \in DOMAIN anom |-> anom[k]["tl_mittel"]],
                         ValuedMonths(y))
    IN  <<total[1], total[2] * Cardinality(ValuedMonths(y))>>

\* C2: mean_anom_per_year holds for each year the unweighted mean of its
\* monthly tl_mittel anomalies; hottest_years lists distinct years of the
\* normal period, five of them when there are at least five, in
\* non-increasing order of annual value; no year left out has a strictly
\* higher annual value than a selected year, and a year without an annual
\* value is selected only after every year that has one.
C2_FiveHottestYears ==
    PhaseOneDone =>
        /\ DOMAIN mean_anom_per_year = NormalYears
        /\ \A y \in NormalYears :
              IF HasAnnualValue(y)
              THEN /\ mean_anom_per_year[y] # NaN
                   /\ FracEq(mean_anom_per_year[y], AnnualValue(y))
              ELSE mean_anom_per_year[y] = NaN
        /\ Range(hottest_years) \subseteq NormalYears
        /\ Cardinality(Range(hottest_years)) = Len(hottest_years)
        /\ Cardinality(NormalYears) >= 5 => Len(hottest_years) = 5
        /\ Cardinality(NormalYears) < 5 => Range(hottest_years) = NormalYears
        /\ \A i, j \in 1..Len(hottest_years) :
              i < j =>
                 /\ HasAnnualValue(hottest_years[j]) => HasAnnualValue(hottest_years[i])
                 /\ HasAnnualValue(hottest_years[i]) /\ HasAnnualValue(hottest_years[j]) =>
                       ~FracLess(AnnualValue(hottest_years[i]),
                                 AnnualValue(hottest_years[j]))
        /\ \A out \in NormalYears \ Range(hottest_years) :
              \A sel \in Range(hottest_years) :
                 HasAnnualValue(out) =>
                    /\ HasAnnualValue(sel)
                    /\ ~FracLess(AnnualValue(sel), AnnualValue(out))

\* more than five years with an annual value, one of them from two months,
\* and a year left out that is strictly cooler than the last one selected
C2_Witness ==
    /\ PhaseOneDone
    /\ Cardinality({y \in NormalYears : HasAnnualValue(y)}) >= 6
    /\ \E y \in NormalYears : Cardinality(ValuedMonths(y)) = 2
    /\ Len(hottest_years) = 5
    /\ \E out \in NormalYears \ Range(hottest_years) :
          /\ HasAnnualValue(out)
          /\ FracLess(AnnualValue(out), AnnualValue(hottest_years[5]))
    /\ FracLess(AnnualValue(hottest_years[5]), AnnualValue(hottest_years[1]))

RECURSIVE ParseInt(_)
\* int(label): the number a decimal numeral stands for
ParseInt(digits) ==
    IF Len(digits) = 0 THEN 0
    ELSE 10 * ParseInt(SubSeq(digits, 1, Len(digits) - 1)) + digits[Len(digits)]

\* the highlighted lines of the anomaly chart, as written to disk
RedLines == Tail(files[1].content)

MarkedYears(f) == {ParseInt(f.content[i].label) : i \in 2..Len(f.content)}

\* C6 as stated: at the end of a run there is, for each of tl_mittel, tlmin
\* and tlmax, an anomaly chart that marks the five hottest years of that
\* parameter.
C6_EveryParameterMarked ==
    pc = "done" =>
        \A p \in TempColumns :
            \E i \in 1..Len(files) :
                /\ files[i].name = ChartOrder[1]
                /\ MarkedYears(files[i]) = Range(HottestYears(SeriesOf(anom, p)))


\* phase two has computed monthly_stats
PhaseTwoDone ==
    \/ pc = "plot2"
    \/ Len(files) >= 2
    \/ (pc = "failed" /\ Len(files) = 1 /\ TempColumns \subseteq Columns)

\* the j-th smallest value of column c over the days D, found by counting
OrderStatistic(D, c, j) ==
    CHOOSE v \in {df[t][c][1] : t \in WithValue(D, c)} :
        /\ Cardinality({t \in WithValue(D, c) : df[t][c][1] < v}) < j
        /\ j <= Cardinality({t \in WithValue(D, c) : df[t][c][1] <= v})

\* the q% quantile of column c over the days D, by linear interpolation
\* between the order statistics around rank 1 + (n - 1) * q / 100
QuantileOf(D, c, q) ==
    LET n    == Cardinality(WithValue(D, c))
        h    == (n - 1) * q
        rank == (h \div 100) + 1
        part == h % 100
    IN  IF n = 0 THEN NaN
        ELSE IF part = 0 THEN <<OrderStatistic(D, c, rank), 1>>
        ELSE <<100 * OrderStatistic(D, c, rank)
                 + part * (OrderStatistic(D, c, rank + 1) - OrderStatistic(D, c, rank)),
               100>>

\* what each label of monthly_stats stands for, in percent
Percent ==
    [lab \in {"median", "p25", "p75", "p10", "p90"} |->
        CASE lab = "median" -> 50
          [] lab = "p25"    -> 25
          [] lab = "p75"    -> 75
          [] lab = "p10"    -> 10
          [] lab = "p90"    -> 90]

\* every entry of monthly_stats is the statistic its label names, taken over
\* the days of its month that lie in the given years
StatsAreOver(years) ==
    /\ DOMAIN monthly_stats =
          {MonthOf(t) : t \in {u \in DOMAIN df : YearOf(u) \in years}}
    /\ \A m \in DOMAIN monthly_stats :
          \A var \in TempColumns : \A lab \in DOMAIN Percent :
             FracEq(monthly_stats[m][<<var, lab>>],
                    QuantileOf({t \in DOMAIN df :
                                   YearOf(t) \in years /\ MonthOf(t) = m},
                               var, Percent[lab]))

CustomYear(y) == y = 2002 \/ y >= 2023

AllYears == {YearOf(t) : t \in DOMAIN df}

CustomYears == {y \in AllYears : CustomYear(y)}

C5_WholePeriodStatistics == PhaseTwoDone => StatsAreOver(AllYears)

=============================================================================
